---- MODULE Spec2Model ----
(***************************************************************************)
(* Model of tools/check_eof_newline.py: the EOFNewlineChecker class        *)
(* (should_check_file, has_eof_newline, fix_eof_newline, discover_files,   *)
(* check_files, fix_files) and main(), over an abstract filesystem.        *)
(*                                                                         *)
(* A path is the sequence of its components (absolute, the leading "/"     *)
(* left implicit); a name is a string; a file's content is a sequence of   *)
(* bytes (naturals).  A file carries two permission bits, r and w: an      *)
(* open() for reading of a file without r, or for writing of a file        *)
(* without w, raises OSError, as does the creation of a file in a          *)
(* directory of roDirs.                                                    *)
(***************************************************************************)
EXTENDS Integers, Sequences, FiniteSets, TLC

VARIABLES
    fs,                  \* the filesystem: file path -> [content, r, w]
    roDirs,              \* directories in which no file can be created
    args,                \* the parsed command line (argparse namespace)
    listFile,            \* content of the --filter-from-file file
    pc,                  \* position of main()
    files_to_check,      \* main: the selected files
    idx,                 \* loop index of check_files / fix_files
    compliant_files,     \* check_files: accumulator
    non_compliant_files, \* check_files: accumulator
    files_to_fix,        \* main: the list handed to fix_files
    success_count,       \* fix_files: accumulator
    error_count,         \* fix_files: accumulator
    out,                 \* what was printed, in order
    exit_code,           \* process exit status (-1 while running)
    raised,              \* an exception left main() uncaught
    fs0,                 \* history: the filesystem when the run started
    rewritten,           \* history: files fix_eof_newline rewrote in this run
    prev,                \* history: summary of the previous run
    run,                 \* history: number of the current run
    hist                 \* history: the direct calls made (SpecFix)

vars == <<fs, roDirs, args, listFile, pc, files_to_check, idx, compliant_files,
          non_compliant_files, files_to_fix, success_count, error_count, out,
          exit_code, raised, fs0, rewritten, prev, run, hist>>

----------------------------------------------------------------------------
(* Bounds of the model *)

\* longest file content drawn for the direct calls of SpecFix
MaxLen == 2
\* number of direct calls in a behaviour of SpecFix
MaxCalls == 2
\* number of consecutive invocations of the tool in a behaviour of Spec
MaxRuns == 2

----------------------------------------------------------------------------
(* Bytes *)

NUL == 0
LF == 10
CR == 13
\* a sample is the first SampleSize bytes of the file
SampleSize == 1024
\* main lists at most ListLimit non-compliant files
ListLimit == 10

\* the bytes contents are drawn from: NUL, LF, CR and one ordinary byte
Bytes == {NUL, LF, CR, 120}

RECURSIVE SeqsUpTo(_, _)
SeqsUpTo(S, n) ==
    IF n = 0 THEN {<<>>}
    ELSE LET shorter == SeqsUpTo(S, n - 1)
         IN shorter \cup {Append(s, b) : s \in {t \in shorter : Len(t) = n - 1}, b \in S}

Min(a, b) == IF a < b THEN a ELSE b

EndsWith(content, suffix) ==
    /\ Len(content) >= Len(suffix)
    /\ SubSeq(content, Len(content) - Len(suffix) + 1, Len(content)) = suffix

----------------------------------------------------------------------------
(* Strings: str methods, pathlib's name handling, fnmatch *)

Char(s, i) == SubSeq(s, i, i)

\* the characters of the model's names, in code point order
CharOrder == "-.0123456789ABCDEFGHIJKLMNOPQRSTUVWXYZ_abcdefghijklmnopqrstuvwxyz~"
UpperChars == "ABCDEFGHIJKLMNOPQRSTUVWXYZ"
LowerChars == "abcdefghijklmnopqrstuvwxyz"

\* ord(c), up to an order-preserving renumbering
CharCode ==
    [c \in {Char(CharOrder, i) : i \in 1..Len(CharOrder)} |->
        CHOOSE i \in 1..Len(CharOrder) : Char(CharOrder, i) = c]
Ord(c) == CharCode[c]

\* str.rfind(c), 1-based; 0 when c does not occur
RFind(s, c) ==
    LET hits == {i \in 1..Len(s) : Char(s, i) = c}
    IN IF hits = {} THEN 0 ELSE CHOOSE i \in hits : \A j \in hits : j <= i

\* str.find(c), 1-based; 0 when c does not occur
Find(s, c) ==
    LET hits == {i \in 1..Len(s) : Char(s, i) = c}
    IN IF hits = {} THEN 0 ELSE CHOOSE i \in hits : \A j \in hits : i <= j

UpperSet == {Char(UpperChars, i) : i \in 1..Len(UpperChars)}
LowerChar(c) ==
    IF c \in UpperSet
    THEN Char(LowerChars, CHOOSE i \in 1..Len(UpperChars) : Char(UpperChars, i) = c)
    ELSE c

RECURSIVE Lower(_)
Lower(s) == IF s = "" THEN "" ELSE LowerChar(Char(s, 1)) \o Lower(SubSeq(s, 2, Len(s)))

RECURSIVE Split(_, _)
Split(s, sep) ==
    LET i == Find(s, sep)
    IN IF i = 0 THEN <<s>>
       ELSE <<SubSeq(s, 1, i - 1)>> \o Split(SubSeq(s, i + 1, Len(s)), sep)

\* str < str: by code points, a proper prefix first
RECURSIVE StrLess(_, _)
StrLess(a, b) ==
    IF b = "" THEN FALSE
    ELSE IF a = "" THEN TRUE
    ELSE IF Char(a, 1) # Char(b, 1) THEN Ord(Char(a, 1)) < Ord(Char(b, 1))
    ELSE StrLess(SubSeq(a, 2, Len(a)), SubSeq(b, 2, Len(b)))

\* fnmatch.fnmatchcase for patterns of literals, * and ?: the pattern is
\* matched against the whole string, and * matches any run of characters,
\* a "/" included.  (fnmatch.fnmatch adds os.path.normcase, the identity on
\* POSIX.)
RECURSIVE FnMatchFrom(_, _, _, _)
FnMatchFrom(s, i, pat, j) ==
    IF j > Len(pat) THEN i > Len(s)
    ELSE IF Char(pat, j) = "*"
         THEN \E k \in i..(Len(s) + 1) : FnMatchFrom(s, k, pat, j + 1)
    ELSE IF i > Len(s) THEN FALSE
    ELSE IF Char(pat, j) = "?" THEN FnMatchFrom(s, i + 1, pat, j + 1)
    ELSE Char(s, i) = Char(pat, j) /\ FnMatchFrom(s, i + 1, pat, j + 1)

Range(seq) == {seq[i] : i \in 1..Len(seq)}

default_excludes ==
    <<"build", "cmake-build-*", "_deps", "CMakeFiles",
      ".git", ".svn", ".hg", ".bzr",
      "__pycache__", "*.pyc", "*.pyo", "*.pyd",
      "*.so", "*.dll", "*.dylib", "*.exe",
      "*.o", "*.obj", "*.a", "*.lib",
      "*.png", "*.jpg", "*.jpeg", "*.gif", "*.bmp", "*.ico",
      "*.pdf", "*.zip", "*.tar", "*.gz", "*.bz2",
      "node_modules", ".venv", "venv", ".env",
      ".idea", ".vscode", "*.swp", "*.swo", "*~">>

\* The matches of the names and patterns that recur in the model's trees and
\* command lines, computed once; fnmatch looks a pair up here and computes
\* any other pair.
CachedNames ==
    {"CMakeLists.txt", "tools", "check_eof_newline.py", "build", "x.txt",
     "a.txt", "a.txt.bak", "b.py", "b.py.bak", "CMakeLists.txt.bak",
     "check_eof_newline.py.bak", "a.txt.bak.bak"}
CachedPatterns == Range(default_excludes) \cup {"*", "*.txt", "*.bak", "tools"}
CachedMatches ==
    {pair : pair \in {q \in CachedNames \X CachedPatterns :
                         FnMatchFrom(q[1], 1, q[2], 1)}}

fnmatch(s, pat) ==
    IF s \in CachedNames /\ pat \in CachedPatterns THEN <<s, pat>> \in CachedMatches
    ELSE FnMatchFrom(s, 1, pat, 1)

\* any(fnmatch.fnmatch(name, pattern) for pattern in patterns)
AnyMatch(name, patterns) == \E i \in 1..Len(patterns) : fnmatch(name, patterns[i])

----------------------------------------------------------------------------
(* Paths *)

Name(p) == p[Len(p)]
Parent(p) == SubSeq(p, 1, Len(p) - 1)

\* PurePath.suffix
Suffix(name) ==
    LET i == RFind(name, ".")
    IN IF 1 < i /\ i < Len(name) THEN SubSeq(name, i, Len(name)) ELSE ""

\* PurePath.with_suffix(suffix), for a suffix that starts with "."
WithSuffix(p, suffix) ==
    LET name == Name(p)
        old  == Suffix(name)
        new  == IF old = "" THEN name \o suffix
                ELSE SubSeq(name, 1, Len(name) - Len(old)) \o suffix
    IN Append(Parent(p), new)

IsPrefix(d, p) == Len(d) <= Len(p) /\ SubSeq(p, 1, Len(d)) = d

\* PurePath.relative_to(root) raises ValueError unless root is a prefix
CanRelativeTo(p, root) == IsPrefix(root, p)
RelativeTo(p, root) == SubSeq(p, Len(root) + 1, Len(p))

\* str(path) of a relative path
RECURSIVE JoinPath(_)
JoinPath(parts) ==
    IF parts = <<>> THEN "."
    ELSE IF Len(parts) = 1 THEN parts[1]
    ELSE parts[1] \o "/" \o JoinPath(Tail(parts))

\* PurePath.__lt__: the component lists compared as Python compares lists
RECURSIVE PathLess(_, _)
PathLess(p, q) ==
    IF q = <<>> THEN FALSE
    ELSE IF p = <<>> THEN TRUE
    ELSE IF p[1] # q[1] THEN StrLess(p[1], q[1])
    ELSE PathLess(Tail(p), Tail(q))

\* sorted(list): stable, keeps duplicates
RECURSIVE Insert(_, _)
Insert(sorted, p) ==
    IF sorted = <<>> THEN <<p>>
    ELSE IF PathLess(p, sorted[Len(sorted)])
         THEN Append(Insert(SubSeq(sorted, 1, Len(sorted) - 1), p), sorted[Len(sorted)])
    ELSE Append(sorted, p)

RECURSIVE Sorted(_)
Sorted(seq) ==
    IF seq = <<>> THEN <<>>
    ELSE Insert(Sorted(SubSeq(seq, 1, Len(seq) - 1)), seq[Len(seq)])

----------------------------------------------------------------------------
(* The filesystem *)

File(content, r, w) == [content |-> content, r |-> r, w |-> w]

IsFile(f, p) == p \in DOMAIN f
IsDir(f, p) == \E q \in DOMAIN f : Len(q) > Len(p) /\ IsPrefix(p, q)
Exists(f, p) == IsFile(f, p) \/ IsDir(f, p)

\* open(p, 'rb') succeeds
CanRead(f, p) == IsFile(f, p) /\ f[p].r
\* open(p, 'wb') succeeds: an existing writable file, or a new file in a
\* directory that accepts one
CanWrite(f, p, ro) ==
    IF IsFile(f, p) THEN f[p].w
    ELSE ~IsDir(f, p) /\ Parent(p) \notin ro

Put(f, p, file) == [q \in DOMAIN f \cup {p} |-> IF q = p THEN file ELSE f[q]]

\* shutil.copy2(src, dst): a dst that is a directory stands for dst/name;
\* the content is copied, then the mode (copystat)
Copy2Target(f, src, dst) == IF IsDir(f, dst) THEN Append(dst, Name(src)) ELSE dst

Copy2(f, ro, src, dst) ==
    LET target == Copy2Target(f, src, dst)
    IN IF CanRead(f, src) /\ CanWrite(f, target, ro)
       THEN [ok |-> TRUE, fs |-> Put(f, target, f[src]), written |-> {target}]
       ELSE [ok |-> FALSE, fs |-> f, written |-> {}]

----------------------------------------------------------------------------
(* EOFNewlineChecker *)

ProjectRoot == <<"proj">>

text_extensions ==
    {".cpp", ".hpp", ".cc", ".cxx", ".hxx", ".h", ".c",
     ".py", ".pyx", ".pyi",
     ".js", ".ts", ".jsx", ".tsx",
     ".css", ".scss", ".sass", ".less",
     ".html", ".htm", ".xml", ".svg",
     ".json", ".yaml", ".yml", ".toml",
     ".md", ".rst", ".txt",
     ".sh", ".bash", ".zsh", ".fish",
     ".cmake", ".cmake.in",
     ".proto", ".capnp",
     ".sql", ".sqlite",
     ".conf", ".cfg", ".ini",
     ".gitignore", ".gitattributes"}

special_files ==
    {"Makefile", "CMakeLists.txt", "Dockerfile", "Vagrantfile",
     "Jenkinsfile", "Pipfile", "requirements.txt", "setup.py",
     "pyproject.toml", "package.json", "tsconfig.json"}

\* the byte strings has_eof_newline and fix_eof_newline accept as a newline
newline_endings == {<<LF>>, <<CR, LF>>, <<CR>>}

should_check_file(f, file_path) ==
    IF Lower(Suffix(Name(file_path))) \in text_extensions THEN TRUE
    ELSE IF Name(file_path) \in special_files THEN TRUE
    ELSE IF ~CanRead(f, file_path) THEN FALSE
    ELSE LET content == f[file_path].content
             sample  == SubSeq(content, 1, Min(Len(content), SampleSize))
         IN IF sample = <<>> THEN TRUE ELSE NUL \notin Range(sample)

has_eof_newline(f, file_path) ==
    IF ~CanRead(f, file_path) THEN FALSE
    ELSE LET content == f[file_path].content
         IN IF Len(content) = 0 THEN TRUE
            ELSE SubSeq(content, Len(content), Len(content)) \in newline_endings

backup_path(file_path) == WithSuffix(file_path, Suffix(Name(file_path)) \o ".bak")

\* The result of fix_eof_newline: ok is the value returned, fs the
\* filesystem it leaves, written the files it opened for writing, error
\* whether it printed "Error fixing".
FixOutcome(ok, f, written) ==
    [ok |-> ok, fs |-> f, written |-> written, error |-> ~ok]

\* faulty variant: the file is rewritten without looking at how it ends
fix_eof_newline_always_appends(f, ro, file_path, create_backup) ==
    LET b == IF create_backup
             THEN Copy2(f, ro, file_path, backup_path(file_path))
             ELSE [ok |-> TRUE, fs |-> f, written |-> {}]
    IN IF ~b.ok \/ ~CanRead(b.fs, file_path) \/ ~CanWrite(b.fs, file_path, ro)
       THEN FixOutcome(FALSE, b.fs, b.written)
       ELSE FixOutcome(TRUE,
                Put(b.fs, file_path,
                    [b.fs[file_path] EXCEPT
                        !.content = Append(b.fs[file_path].content, LF)]),
                b.written \cup {file_path})

fix_eof_newline(f, ro, file_path, create_backup) ==
    LET b == IF create_backup
             THEN Copy2(f, ro, file_path, backup_path(file_path))
             ELSE [ok |-> TRUE, fs |-> f, written |-> {}]
    IN IF ~b.ok THEN FixOutcome(FALSE, b.fs, b.written)
       ELSE IF ~CanRead(b.fs, file_path) THEN FixOutcome(FALSE, b.fs, b.written)
       ELSE LET content == b.fs[file_path].content
            IN IF content = <<>> THEN FixOutcome(TRUE, b.fs, b.written)
               ELSE IF \E e \in newline_endings : EndsWith(content, e)
                    THEN FixOutcome(TRUE, b.fs, b.written)
               ELSE IF ~CanWrite(b.fs, file_path, ro)
                    THEN FixOutcome(FALSE, b.fs, b.written)
               ELSE FixOutcome(TRUE,
                        Put(b.fs, file_path,
                            [b.fs[file_path] EXCEPT !.content = Append(content, LF)]),
                        b.written \cup {file_path})

\* os.walk's listing of a directory: its file names and its directory names
ListFiles(f, dir) ==
    {q[Len(dir) + 1] : q \in {q \in DOMAIN f : IsPrefix(dir, q) /\ Len(q) = Len(dir) + 1}}
ListDirs(f, dir) ==
    {q[Len(dir) + 1] : q \in {q \in DOMAIN f : IsPrefix(dir, q) /\ Len(q) > Len(dir) + 1}}

\* a directory listing as a sequence (the order of a listing does not
\* reach the result, which is sorted)
RECURSIVE NamesInOrder(_)
NamesInOrder(S) ==
    IF S = {} THEN <<>>
    ELSE LET m == CHOOSE x \in S : \A y \in S \ {x} : StrLess(x, y)
         IN <<m>> \o NamesInOrder(S \ {m})

\* faulty variant: excluded directories are walked like the others
KeptDirs_no_pruning(dirs, exclude_patterns) == dirs

\* dirs[:] = [d for d in dirs if not any(fnmatch(d, pattern) ...)]
KeptDirs(dirs, exclude_patterns) == {d \in dirs : ~AnyMatch(d, exclude_patterns)}

\* the body of the loop over filenames: whether the file is appended
KeepFile(f, file_path, include_patterns, exclude_patterns) ==
    LET filename == Name(file_path)
    IN /\ ~AnyMatch(filename, exclude_patterns)
       /\ \E i \in 1..Len(include_patterns) :
             \/ fnmatch(filename, include_patterns[i])
             \/ fnmatch(JoinPath(RelativeTo(file_path, ProjectRoot)), include_patterns[i])
       /\ should_check_file(f, file_path)

RECURSIVE Walk(_, _, _, _)
RECURSIVE WalkEach(_, _, _, _, _)

\* for root, dirs, filenames in os.walk(...): the files appended for the
\* directory, then those of the directories left in dirs
Walk(f, dir, include_patterns, exclude_patterns) ==
    LET filenames == NamesInOrder(ListFiles(f, dir))
        dirs      == NamesInOrder(KeptDirs(ListDirs(f, dir), exclude_patterns))
        here      == SelectSeq([i \in 1..Len(filenames) |-> Append(dir, filenames[i])],
                               LAMBDA file_path :
                                   KeepFile(f, file_path, include_patterns, exclude_patterns))
    IN here \o WalkEach(f, dir, dirs, include_patterns, exclude_patterns)

WalkEach(f, dir, dirs, include_patterns, exclude_patterns) ==
    IF dirs = <<>> THEN <<>>
    ELSE Walk(f, Append(dir, Head(dirs)), include_patterns, exclude_patterns)
         \o WalkEach(f, dir, Tail(dirs), include_patterns, exclude_patterns)

\* an argument that is None or an empty list is <<>> here: `x or default`
\* takes the default for both
discover_files(f, include_patterns, exclude_patterns) ==
    LET excludes == exclude_patterns \o default_excludes
        includes == IF include_patterns = <<>> THEN <<"*">> ELSE include_patterns
    IN Sorted(Walk(f, ProjectRoot, includes, excludes))

----------------------------------------------------------------------------
(* main(): one invocation of the tool, and the next one after it.          *)
(* pc: "main" (lines 262-314), "check_files" (the loop of check_files for  *)
(* --check), "fix_scan" (the same loop, called by --fix), "fix_files" (the *)
(* loop of fix_files), "exit".  A line of output is <<kind, detail>>.      *)

MarkerFile == Append(ProjectRoot, "CMakeLists.txt")

Line(kind, detail) == <<kind, detail>>
When(cond, lines) == IF cond THEN lines ELSE <<>>

\* project_root / file_path if not Path(file_path).is_absolute() else Path(file_path)
AbsPath(entry) == IF entry.abs THEN entry.parts ELSE ProjectRoot \o entry.parts

\* lines 280-299: the files to check; ok is false when the list file
\* cannot be read.  An option that was not given (None) is "" here: the
\* code tests both with `if args.filter`, `if args.exclude`.
SelectFiles(f, a, list) ==
    IF a.filter_from_file
    THEN IF ~list.readable THEN [ok |-> FALSE, files |-> <<>>]
         ELSE [ok |-> TRUE,
               files |-> SelectSeq([i \in 1..Len(list.lines) |-> AbsPath(list.lines[i])],
                                   LAMBDA abs_path :
                                       Exists(f, abs_path) /\ should_check_file(f, abs_path))]
    ELSE [ok |-> TRUE,
          files |-> discover_files(f,
                        IF a.filter = "" THEN <<>> ELSE <<a.filter>>,
                        IF a.exclude = "" THEN <<>> ELSE Split(a.exclude, ","))]

Exit(code) ==
    /\ pc' = "exit"
    /\ exit_code' = code
    /\ raised' = FALSE

\* an exception nothing catches: the interpreter prints the traceback and
\* the process ends with status 1
Raise ==
    /\ pc' = "exit"
    /\ exit_code' = 1
    /\ raised' = TRUE

UnchangedHistory == UNCHANGED <<fs0, prev, run, hist, roDirs, listFile, args>>

\* lines 262-314
Main ==
    /\ pc = "main"
    /\ UNCHANGED <<fs, rewritten, idx, compliant_files, non_compliant_files,
                   files_to_fix, success_count, error_count>>
    /\ UnchangedHistory
    /\ IF ~Exists(fs, MarkerFile)
       THEN /\ out' = out \o <<Line("error_root", ProjectRoot)>>
            /\ UNCHANGED files_to_check
            /\ Exit(1)
       ELSE LET banner == When(~args.quiet, <<Line("banner", ProjectRoot)>>)
                sel    == SelectFiles(fs, args, listFile)
                files  == sel.files
            IN IF ~sel.ok
               THEN /\ out' = out \o banner \o <<Line("error_list", ProjectRoot)>>
                    /\ UNCHANGED files_to_check
                    /\ Exit(1)
               ELSE /\ files_to_check' = files
                    /\ IF files = <<>>
                       THEN /\ out' = out \o banner \o <<Line("no_files", 0)>>
                            /\ Exit(0)
                       ELSE /\ out' = out \o banner
                                      \o When(~args.quiet, <<Line("found", Len(files))>>)
                            /\ pc' = IF args.check THEN "check_files" ELSE "fix_scan"
                            /\ UNCHANGED <<exit_code, raised>>

\* lines 188-196: one iteration of the loop of check_files; main passes
\* show_details for --check (line 317) and not for --fix (line 344)
CheckFilesStep ==
    /\ pc \in {"check_files", "fix_scan"}
    /\ idx <= Len(files_to_check)
    /\ LET file_path    == files_to_check[idx]
           show_details == pc = "check_files" /\ args.show_details
           has          == has_eof_newline(fs, file_path)
       IN /\ compliant_files' =
                 IF has THEN Append(compliant_files, file_path) ELSE compliant_files
          /\ non_compliant_files' =
                 IF has THEN non_compliant_files ELSE Append(non_compliant_files, file_path)
          /\ IF show_details /\ ~CanRelativeTo(file_path, ProjectRoot)
             THEN Raise /\ UNCHANGED <<out, idx>>
             ELSE /\ out' = out \o When(show_details,
                                <<Line(IF has THEN "ok_marker" ELSE "missing_marker",
                                       file_path)>>)
                  /\ idx' = idx + 1
                  /\ UNCHANGED <<pc, exit_code, raised>>
    /\ UNCHANGED <<fs, rewritten, files_to_check, files_to_fix, success_count, error_count>>
    /\ UnchangedHistory

\* lines 327-328: the listed files; the listing stops at the first path
\* relative_to raises on
RECURSIVE ListedUntilRaise(_)
ListedUntilRaise(paths) ==
    IF paths = <<>> \/ ~CanRelativeTo(Head(paths), ProjectRoot) THEN <<>>
    ELSE <<Line("missing_item", Head(paths))>> \o ListedUntilRaise(Tail(paths))

\* faulty variant: --quiet does not suppress the list of non-compliant files
ShowsList_despite_quiet(a) == ~a.show_details

\* line 325
ShowsList(a) == ~a.show_details /\ ~a.quiet

\* lines 319-340, after check_files returned
CheckReport ==
    /\ pc = "check_files"
    /\ idx > Len(files_to_check)
    /\ UNCHANGED <<fs, rewritten, files_to_check, idx, compliant_files,
                   non_compliant_files, files_to_fix, success_count, error_count>>
    /\ UnchangedHistory
    /\ LET results == When(~args.quiet,
                           <<Line("results_ok", Len(compliant_files)),
                             Line("results_missing", Len(non_compliant_files))>>)
           shown   == SubSeq(non_compliant_files, 1,
                             Min(Len(non_compliant_files), ListLimit))
           listed  == ListedUntilRaise(shown)
       IN IF non_compliant_files # <<>>
          THEN IF ShowsList(args) /\ Len(listed) < Len(shown)
               THEN /\ out' = out \o results \o <<Line("missing_header", 0)>> \o listed
                    /\ Raise
               ELSE /\ out' = out \o results
                          \o When(ShowsList(args),
                                  <<Line("missing_header", 0)>> \o listed
                                  \o When(Len(non_compliant_files) > ListLimit,
                                          <<Line("missing_more",
                                                 Len(non_compliant_files) - ListLimit)>>))
                          \o <<Line("hint_fix", 0)>>
                          \o When(~args.backup, <<Line("hint_backup", 0)>>)
                    /\ Exit(1)
          ELSE /\ out' = out \o results
                         \o When(~args.quiet, <<Line("all_ok", Len(files_to_check))>>)
               /\ Exit(0)

\* lines 344-354, after check_files returned
FixPrepare ==
    /\ pc = "fix_scan"
    /\ idx > Len(files_to_check)
    /\ files_to_fix' = non_compliant_files
    /\ UNCHANGED <<fs, rewritten, files_to_check, compliant_files,
                   non_compliant_files, success_count, error_count>>
    /\ UnchangedHistory
    /\ IF non_compliant_files = <<>>
       THEN /\ out' = out \o <<Line("already_ok", Len(files_to_check))>>
            /\ UNCHANGED idx
            /\ Exit(0)
       ELSE /\ out' = out \o When(~args.quiet, <<Line("fixing", Len(non_compliant_files))>>)
                          \o When(~args.quiet /\ args.backup, <<Line("backup_note", 0)>>)
            /\ idx' = 1
            /\ pc' = "fix_files"
            /\ UNCHANGED <<exit_code, raised>>

\* lines 205-211: one iteration of the loop of fix_files
FixFilesStep ==
    /\ pc = "fix_files"
    /\ idx <= Len(files_to_fix)
    /\ LET file_path == files_to_fix[idx]
           res       == fix_eof_newline(fs, roDirs, file_path, args.backup)
       IN /\ fs' = res.fs
          /\ rewritten' = rewritten \cup (res.written \cap {file_path})
          /\ success_count' = IF res.ok THEN success_count + 1 ELSE success_count
          /\ error_count' = IF res.ok THEN error_count ELSE error_count + 1
          /\ IF ~CanRelativeTo(file_path, ProjectRoot)
             THEN /\ out' = out \o When(res.error, <<Line("error_fixing", file_path)>>)
                  /\ UNCHANGED idx
                  /\ Raise
             ELSE /\ out' = out \o When(res.error, <<Line("error_fixing", file_path)>>)
                          \o <<Line(IF res.ok THEN "fixed" ELSE "failed", file_path)>>
                  /\ idx' = idx + 1
                  /\ UNCHANGED <<pc, exit_code, raised>>
    /\ UNCHANGED <<files_to_check, compliant_files, non_compliant_files, files_to_fix>>
    /\ UnchangedHistory

\* lines 358-376, after fix_files returned
FixReport ==
    /\ pc = "fix_files"
    /\ idx > Len(files_to_fix)
    /\ UNCHANGED <<fs, rewritten, files_to_check, idx, compliant_files,
                   non_compliant_files, files_to_fix, success_count, error_count>>
    /\ UnchangedHistory
    /\ LET results == When(~args.quiet,
                           <<Line("results_fixed", success_count)>>
                           \o When(error_count > 0, <<Line("results_failed", error_count)>>))
       IN IF error_count > 0
          THEN /\ out' = out \o results \o <<Line("some_failed", 0)>>
               /\ Exit(1)
          ELSE /\ out' = out \o results \o <<Line("success", success_count)>>
                         \o When(~args.quiet, <<Line("next_steps", 0)>>)
               /\ Exit(0)

\* the tool is invoked again, on the tree the last run left, with the same
\* options but for the action, --check or --fix
NextRun ==
    /\ pc = "exit"
    /\ run < MaxRuns
    /\ run' = run + 1
    /\ prev' = [args |-> args, exit_code |-> exit_code, raised |-> raised]
    /\ \E check \in BOOLEAN : args' = [args EXCEPT !.check = check]
    /\ pc' = "main"
    /\ fs0' = fs
    /\ rewritten' = {}
    /\ files_to_check' = <<>> /\ idx' = 1
    /\ compliant_files' = <<>> /\ non_compliant_files' = <<>>
    /\ files_to_fix' = <<>> /\ success_count' = 0 /\ error_count' = 0
    /\ out' = <<>> /\ exit_code' = -1 /\ raised' = FALSE
    /\ UNCHANGED <<fs, roDirs, listFile, hist>>

Next ==
    \/ Main
    \/ CheckFilesStep
    \/ CheckReport
    \/ FixPrepare
    \/ FixFilesStep
    \/ FixReport
    \/ NextRun

(* The trees and command lines of Spec *)

Rel(parts) == [abs |-> FALSE, parts |-> parts]
Abs(parts) == [abs |-> TRUE, parts |-> parts]

Text == <<120>>
TextLF == <<120, LF>>

AFile == Append(ProjectRoot, "a.txt")
ABackup == Append(ProjectRoot, "a.txt.bak")
BFile == Append(ProjectRoot, "b.py")
ScriptFile == ProjectRoot \o <<"tools", "check_eof_newline.py">>
PlantedFile == ProjectRoot \o <<"build", "x.txt">>
OutsideFile == <<"tmp", "o.txt">>

\* the part of every tree: the script itself, a file inside a directory the
\* default excludes name, and a file outside the project
BaseTree ==
    (ScriptFile :> File(TextLF, TRUE, TRUE))
    @@ (PlantedFile :> File(Text, TRUE, TRUE))

Trees ==
    {BaseTree @@ (MarkerFile :> File(TextLF, TRUE, TRUE))
              @@ (AFile :> File(a, TRUE, TRUE))
              @@ (BFile :> b)
              @@ (OutsideFile :> File(o, TRUE, TRUE))
              @@ (IF bak = "absent" THEN BaseTree
                  ELSE (ABackup :> File(IF bak = "text" THEN <<120, 120>>
                                        ELSE <<120, 120, LF>>, TRUE, TRUE))) :
        a \in {Text, TextLF},
        b \in {File(Text, TRUE, TRUE), File(Text, TRUE, FALSE),
               File(TextLF, FALSE, FALSE), File(<<>>, TRUE, TRUE)},
        o \in {Text, TextLF},
        bak \in {"absent", "text", "textLF"}}
    \cup {BaseTree @@ (AFile :> File(Text, TRUE, TRUE))}

\* the ways the files are selected: --filter, --exclude, --filter-from-file
\* and the lines of the list file
NoList == [readable |-> FALSE, lines |-> <<>>]
ListOf(lines) == [readable |-> TRUE, lines |-> lines]

Selections ==
    {[filter |-> "", exclude |-> "", from_file |-> FALSE, list |-> NoList],
     [filter |-> "*.txt", exclude |-> "", from_file |-> FALSE, list |-> NoList],
     [filter |-> "", exclude |-> "*.bak,tools", from_file |-> FALSE, list |-> NoList],
     [filter |-> "", exclude |-> "", from_file |-> TRUE,
      list |-> ListOf(<<Rel(<<"a.txt">>), Rel(<<"b.py">>)>>)],
     [filter |-> "", exclude |-> "", from_file |-> TRUE,
      list |-> ListOf(<<Rel(<<"a.txt">>), Rel(<<"a.txt">>)>>)],
     [filter |-> "", exclude |-> "", from_file |-> TRUE,
      list |-> ListOf(<<Abs(OutsideFile), Rel(<<"b.py">>)>>)],
     [filter |-> "", exclude |-> "", from_file |-> TRUE,
      list |-> ListOf(<<Rel(<<"missing.txt">>), Abs(AFile)>>)],
     [filter |-> "", exclude |-> "", from_file |-> TRUE, list |-> NoList]}

NoArgs ==
    [check |-> TRUE, filter |-> "", filter_from_file |-> FALSE, exclude |-> "",
     backup |-> FALSE, show_details |-> FALSE, quiet |-> FALSE]

\* before the first run there is no previous run
NoPrev == [args |-> NoArgs, exit_code |-> -1, raised |-> FALSE]

Init ==
    /\ fs \in Trees
    /\ roDirs = {}
    /\ \E sel \in Selections, check \in BOOLEAN, backup \in BOOLEAN,
          show_details \in BOOLEAN, quiet \in BOOLEAN :
          /\ args = [check |-> check, filter |-> sel.filter,
                     filter_from_file |-> sel.from_file, exclude |-> sel.exclude,
                     backup |-> backup, show_details |-> show_details, quiet |-> quiet]
          /\ listFile = sel.list
    /\ pc = "main"
    /\ files_to_check = <<>> /\ idx = 1
    /\ compliant_files = <<>> /\ non_compliant_files = <<>>
    /\ files_to_fix = <<>> /\ success_count = 0 /\ error_count = 0
    /\ out = <<>> /\ exit_code = -1 /\ raised = FALSE
    /\ fs0 = fs /\ rewritten = {} /\ prev = NoPrev /\ run = 1
    /\ hist = <<>>

Spec == Init /\ [][Next]_vars

----------------------------------------------------------------------------
(* SpecFix: has_eof_newline and fix_eof_newline called directly on one     *)
(* file, over every content of at most MaxLen bytes, every permission, and *)
(* a backup path that is absent, writable or read-only.                    *)

TargetFile == <<"proj", "a.txt">>
TargetBackup == <<"proj", "a.txt.bak">>

Idle ==
    /\ args = NoArgs /\ listFile = NoList /\ pc = "calls"
    /\ files_to_check = <<>> /\ idx = 0
    /\ compliant_files = <<>> /\ non_compliant_files = <<>>
    /\ files_to_fix = <<>> /\ success_count = 0 /\ error_count = 0
    /\ out = <<>> /\ exit_code = -1 /\ raised = FALSE
    /\ rewritten = {} /\ prev = NoPrev /\ run = 0

InitFix ==
    /\ \E content \in SeqsUpTo(Bytes, MaxLen), r \in BOOLEAN, w \in BOOLEAN,
          bak \in {"absent", "rw", "r-"} :
          fs = IF bak = "absent"
               THEN (TargetFile :> File(content, r, w))
               ELSE (TargetFile :> File(content, r, w))
                    @@ (TargetBackup :> File(<<120, 120>>, TRUE, bak = "rw"))
    /\ roDirs \in {{}, {ProjectRoot}}
    /\ fs0 = fs
    /\ hist = <<>>
    /\ Idle

UnchangedRun ==
    UNCHANGED <<roDirs, args, listFile, pc, files_to_check, idx, compliant_files,
                non_compliant_files, files_to_fix, success_count, error_count,
                out, exit_code, raised, fs0, rewritten, prev, run>>

CallFix ==
    /\ Len(hist) < MaxCalls
    /\ \E create_backup \in BOOLEAN :
          LET res == fix_eof_newline(fs, roDirs, TargetFile, create_backup)
          IN /\ fs' = res.fs
             /\ hist' = Append(hist, [op |-> "fix", backup |-> create_backup,
                                      ok |-> res.ok, pre |-> fs, post |-> res.fs,
                                      written |-> res.written])
    /\ UnchangedRun

CallHas ==
    /\ Len(hist) < MaxCalls
    /\ hist' = Append(hist, [op |-> "has", backup |-> FALSE,
                             ok |-> has_eof_newline(fs, TargetFile),
                             pre |-> fs, post |-> fs, written |-> {}])
    /\ UNCHANGED fs
    /\ UnchangedRun

NextFix == CallFix \/ CallHas

SpecFix == InitFix /\ [][NextFix]_vars

----------------------------------------------------------------------------
(* SpecDiscover: discover_files called on trees with nested directories,   *)
(* excluded directories, binary and unreadable files, under several        *)
(* --filter and --exclude options.                                         *)

Under(parts) == ProjectRoot \o parts

\* groups of files a tree holds or not
TreeGroups ==
    <<(Under(<<"a.txt">>) :> File(Text, TRUE, TRUE)),
      (Under(<<"sub.txt">>) :> File(Text, TRUE, TRUE))
          @@ (Under(<<"sub", "c.md">>) :> File(TextLF, TRUE, TRUE)),
      (Under(<<"sub", "deep", "e.txt">>) :> File(Text, TRUE, TRUE))
          @@ (Under(<<"node_modules", "pkg", "i.js">>) :> File(Text, TRUE, TRUE)),
      (Under(<<"m.pyc">>) :> File(Text, TRUE, TRUE))
          @@ (Under(<<"sub", "build", "y.txt">>) :> File(Text, TRUE, TRUE)),
      (Under(<<"d.dat">>) :> File(<<120, NUL>>, TRUE, TRUE))
          @@ (Under(<<"E.TXT">>) :> File(<<NUL>>, TRUE, TRUE))
          @@ (Under(<<"notes">>) :> File(TextLF, TRUE, TRUE))
          @@ (Under(<<"raw">>) :> File(Text, FALSE, TRUE))>>

RECURSIVE TreeOf(_, _)
TreeOf(groups, i) ==
    IF i = 0
    THEN BaseTree @@ (MarkerFile :> File(TextLF, TRUE, TRUE))
                  @@ (OutsideFile :> File(Text, TRUE, TRUE))
    ELSE IF i \in groups THEN TreeGroups[i] @@ TreeOf(groups, i - 1)
    ELSE TreeOf(groups, i - 1)

DiscoverFilters == {"", "*.txt", "sub/*", "s*", "c.md", "?.*"}
DiscoverExcludes == {"", "sub", "deep,*.md", "build/*", "s*,E.TXT"}

InitDiscover ==
    /\ \E groups \in SUBSET (1..Len(TreeGroups)) : fs = TreeOf(groups, Len(TreeGroups))
    /\ roDirs = {}
    /\ \E filter \in DiscoverFilters, exclude \in DiscoverExcludes :
          args = [NoArgs EXCEPT !.filter = filter, !.exclude = exclude]
    /\ listFile = NoList
    /\ pc = "discover"
    /\ files_to_check = <<>> /\ idx = 1
    /\ compliant_files = <<>> /\ non_compliant_files = <<>>
    /\ files_to_fix = <<>> /\ success_count = 0 /\ error_count = 0
    /\ out = <<>> /\ exit_code = -1 /\ raised = FALSE
    /\ fs0 = fs /\ rewritten = {} /\ prev = NoPrev /\ run = 1
    /\ hist = <<>>

\* line 299
Discover ==
    /\ pc = "discover"
    /\ files_to_check' = SelectFiles(fs, args, listFile).files
    /\ pc' = "discovered"
    /\ UNCHANGED <<fs, roDirs, args, listFile, idx, compliant_files,
                   non_compliant_files, files_to_fix, success_count, error_count,
                   out, exit_code, raised, fs0, rewritten, prev, run, hist>>

NextDiscover == Discover

SpecDiscover == InitDiscover /\ [][NextDiscover]_vars

----------------------------------------------------------------------------
(* Properties of the direct calls (SpecFix) *)

\* a content that needs no fix: empty, or its last byte is \n or \r
Compliant(content) == content = <<>> \/ content[Len(content)] \in {LF, CR}

\* the copy to the backup path can be made: the backup file is there and
\* writable, or it can be created
BackupCanSucceed(f) ==
    IF TargetBackup \in DOMAIN f THEN f[TargetBackup].w
    ELSE ProjectRoot \notin roDirs

FixCalls == {i \in 1..Len(hist) : hist[i].op = "fix"}

\* the calls of fix on a readable and writable file that holds a non-empty
\* B ending in neither \n nor \r
FixCallsOnB ==
    {i \in FixCalls : /\ hist[i].pre[TargetFile].r
                      /\ hist[i].pre[TargetFile].w
                      /\ ~Compliant(hist[i].pre[TargetFile].content)}

\* C1 as stated: fix on a readable and writable file holding such a B
\* returns success and leaves B + \n, and a directly following fix call
\* writes nothing at all. The backup copy, where one is requested, can be
\* made: no call of the claim's case meets an I/O failure.
C1_Original ==
    \A i \in FixCallsOnB :
        LET h == hist[i]
            B == h.pre[TargetFile].content
        IN (h.backup => BackupCanSucceed(h.pre)) =>
              /\ h.ok
              /\ h.post[TargetFile].content = B \o <<LF>>
              /\ ((i + 1) \in FixCalls
                    /\ (hist[i + 1].backup => BackupCanSucceed(hist[i + 1].pre))) =>
                    /\ hist[i + 1].ok
                    /\ hist[i + 1].post[TargetFile].content = B \o <<LF>>
                    /\ hist[i + 1].written = {}
                    /\ hist[i + 1].post = hist[i + 1].pre

----------------------------------------------------------------------------
(* Properties of discover_files (SpecDiscover) *)

UserExcludes == IF args.exclude = "" THEN {} ELSE Range(Split(args.exclude, ","))
AllExcludes == UserExcludes \cup Range(default_excludes)
Includes == IF args.filter = "" THEN {"*"} ELSE {args.filter}

\* the directories strictly between the project root and the file
AncestorNames(p) == {p[k] : k \in (Len(ProjectRoot) + 1)..(Len(p) - 1)}

\* the four conditions of C8 on a file of the tree
Discoverable(p) ==
    /\ IsPrefix(ProjectRoot, p)
    /\ \A d \in AncestorNames(p) : \A e \in AllExcludes : ~fnmatch(d, e)
    /\ \A e \in AllExcludes : ~fnmatch(Name(p), e)
    /\ \E g \in Includes :
          \/ fnmatch(Name(p), g)
          \/ fnmatch(JoinPath(RelativeTo(p, ProjectRoot)), g)
    /\ should_check_file(fs, p)

\* C8: discover_files returns exactly the files that have no excluded
\* ancestor directory below the root, no excluded name, a name or a
\* root-relative path matching an include glob, and that pass
\* should_check_file; the result is strictly increasing in the order of
\* paths (component by component, each component by code points), so it
\* is sorted and holds no path twice.
C8_DiscoverExact ==
    pc = "discovered" =>
        /\ Range(files_to_check) = {p \in DOMAIN fs : Discoverable(p)}
        /\ \A i \in 1..Len(files_to_check) : \A j \in 1..Len(files_to_check) :
              i < j => PathLess(files_to_check[i], files_to_check[j])

\* C8's case: a tree with files planted in excluded directories at two
\* depths, none of which is returned, and a directory whose files sort
\* before the file that extends its name.
C8_Witness ==
    /\ pc = "discovered"
    /\ args.filter = "" /\ args.exclude = ""
    /\ {PlantedFile, Under(<<"node_modules", "pkg", "i.js">>),
        Under(<<"sub", "build", "y.txt">>)} \subseteq DOMAIN fs
    /\ Range(files_to_check) \cap {PlantedFile, Under(<<"node_modules", "pkg", "i.js">>),
                                   Under(<<"sub", "build", "y.txt">>)} = {}
    /\ \E i \in 1..Len(files_to_check) : \E j \in 1..Len(files_to_check) :
          /\ i < j
          /\ files_to_check[i] = Under(<<"sub", "c.md">>)
          /\ files_to_check[j] = Under(<<"sub.txt">>)

----------------------------------------------------------------------------
(* Properties of a run (Spec) *)

Printed(kind) == \E i \in 1..Len(out) : out[i][1] = kind
PrintedLine(kind, detail) == \E i \in 1..Len(out) : out[i] = Line(kind, detail)

\* the original name with the backup suffix appended
BackupOf(p) == Append(Parent(p), Name(p) \o ".bak")

\* a processed file that is compliant: readable, and empty or ending in \n or \r
CompliantFile(f, p) == CanRead(f, p) /\ Compliant(f[p].content)

\* the processed paths are a set: no path is processed twice
NoPathTwice ==
    \A i \in 1..Len(files_to_check) : \A j \in 1..Len(files_to_check) :
        files_to_check[i] = files_to_check[j] => i = j

\* C3 as stated: after a --fix --backup run over a set of paths that exits
\* 0, every file the run rewrote has a backup holding the file's content
\* from before the run, and every processed file that was compliant is
\* unchanged.
C3_BackupsHoldOriginals ==
    (pc = "exit" /\ ~args.check /\ args.backup /\ exit_code = 0 /\ ~raised
        /\ NoPathTwice) =>
        /\ \A p \in rewritten :
              /\ BackupOf(p) \in DOMAIN fs
              /\ fs[BackupOf(p)].content = fs0[p].content
        /\ \A i \in 1..Len(files_to_check) :
              CompliantFile(fs0, files_to_check[i]) =>
                  fs[files_to_check[i]] = fs0[files_to_check[i]]

\* C4 as stated: a --check run over a non-empty list of files exits 0 if
\* and only if every processed file is compliant, a file that cannot be
\* read counting as non-compliant, and exits 1 otherwise.
C4_CheckExitCode ==
    (pc = "exit" /\ args.check /\ files_to_check # <<>>) =>
        /\ exit_code \in {0, 1}
        /\ exit_code = 0 <=>
              \A i \in 1..Len(files_to_check) : CompliantFile(fs, files_to_check[i])

\* C5 as stated: fix_files goes through every path it is given: the two
\* counts add up to the number of paths, every path that can be fixed is
\* fixed, and the --fix run exits 1 if and only if some fix failed.
C5_FixBatchComplete ==
    (pc = "exit" /\ ~args.check /\ files_to_fix # <<>>) =>
        /\ success_count + error_count = Len(files_to_fix)
        /\ exit_code = 1 <=> error_count > 0
        /\ \A i \in 1..Len(files_to_fix) :
              (fs0[files_to_fix[i]].r /\ fs0[files_to_fix[i]].w) =>
                  Compliant(fs[files_to_fix[i]].content)

\* C6 as stated: no exception leaves a run uncaught.
C6_NoUncaughtException == ~raised

\* C7 as stated: with --quiet, a --check run that finds non-compliant files
\* and runs to its end reports each of them (in the list or by its marker)
\* and the remediation hint, and exits 1.
C7_Original ==
    (pc = "exit" /\ ~raised /\ args.check /\ args.quiet /\ non_compliant_files # <<>>) =>
        /\ exit_code = 1
        /\ Printed("hint_fix")
        /\ \A i \in 1..Len(non_compliant_files) :
              \/ PrintedLine("missing_item", non_compliant_files[i])
              \/ PrintedLine("missing_marker", non_compliant_files[i])

\* C7 as amended: with --quiet, a --check run never prints the list of
\* non-compliant files, the summary or the progress text; without
\* --show-details a run that finds a non-compliant file prints the
\* remediation hint, and nothing else, and exits 1.
C7_QuietPrintsHintOnly ==
    (args.check /\ args.quiet) =>
        /\ \A k \in {"missing_header", "missing_item", "missing_more", "results_ok",
                     "results_missing", "banner", "found", "all_ok"} : ~Printed(k)
        /\ (pc = "exit" /\ ~args.show_details /\ non_compliant_files # <<>>) =>
              /\ exit_code = 1
              /\ ~raised
              /\ out = <<Line("hint_fix", 0)>>
                       \o When(~args.backup, <<Line("hint_backup", 0)>>)

\* C7's case: a quiet --check run without --show-details that found two
\* non-compliant files and ended.
C7_Witness ==
    /\ pc = "exit" /\ args.check /\ args.quiet /\ ~args.show_details
    /\ Len(non_compliant_files) = 2
    /\ exit_code = 1

\* C9 as stated: after a --fix run over the discovered files exits 0, a
\* --check run with the same --filter and --exclude exits 0.
C9_CheckAfterFix ==
    (pc = "exit" /\ run > 1 /\ args.check /\ ~args.filter_from_file
        /\ ~prev.args.check /\ prev.exit_code = 0 /\ ~prev.raised) =>
        exit_code = 0

\* C10 as stated: during a --fix run every file that existed before the
\* run holds its original bytes, or, if it was selected, non-empty and
\* non-compliant, its original bytes followed by one \n.
C10_FilesKeepTheirBytes ==
    ~args.check =>
        \A p \in DOMAIN fs0 :
            /\ p \in DOMAIN fs
            /\ \/ fs[p].content = fs0[p].content
               \/ /\ \E i \in 1..Len(files_to_check) : files_to_check[i] = p
                  /\ ~Compliant(fs0[p].content)
                  /\ fs[p].content = fs0[p].content \o <<LF>>

====
